---- MODULE Spec2Model ----
(***************************************************************************)
(* Key-source selection of packager/app/packager_util.cc:                  *)
(* CreateSigner, CreateEncryptionKeySource and CreateDecryptionKeySource.  *)
(*                                                                         *)
(* The command-line flags are the program's configuration (variable        *)
(* flags).  A call of one of the three functions is one action; what the   *)
(* call returned, the external calls it made (with their arguments and     *)
(* results, in order) and the LOG(ERROR) lines it wrote are the variables   *)
(* ret, calls and log.  The outcome of an external collaborator (signer    *)
(* construction, file read, key fetch) is chosen nondeterministically.     *)
(***************************************************************************)
EXTENDS Integers, Sequences, FiniteSets, TLC

VARIABLES flags, pc, ret, calls, log

vars == <<flags, pc, ret, calls, log>>

(***************************************************************************)
(* Bounds and input alphabets                                              *)
(***************************************************************************)
\* longest --content_id string enumerated
MaxContentIdLen == 2

\* characters of the hex-string flags: two hex digits and one non-hex character
Alphabet == {"1", "f", "x"}

\* strings over Alphabet of length at most n
RECURSIVE StringsUpTo(_)
StringsUpTo(n) ==
  IF n = 0 THEN {<<>>}
  ELSE LET shorter == StringsUpTo(n - 1)
       IN  shorter \cup {Append(s, c) : s \in {t \in shorter : Len(t) = n - 1}, c \in Alphabet}

\* values of the fixed-key hex flags: empty, valid, odd length, non-hex
HexSamples == {<<>>, <<"1", "f">>, <<"f">>, <<"x", "x">>}

\* the null unique_ptr (no signer / no key source)
NULL == [kind |-> "null"]

\* a completed call: returned value, external calls in order, LOG(ERROR) lines
Run(r, c, l) == [ret |-> r, calls |-> c, log |-> l]

(***************************************************************************)
(* External collaborators                                                  *)
(***************************************************************************)
HexDigits == {"0", "1", "2", "3", "4", "5", "6", "7", "8", "9",
              "a", "b", "c", "d", "e", "f"}

HexVal(c) ==
  CASE c = "0" -> 0 [] c = "1" -> 1 [] c = "2" -> 2 [] c = "3" -> 3
    [] c = "4" -> 4 [] c = "5" -> 5 [] c = "6" -> 6 [] c = "7" -> 7
    [] c = "8" -> 8 [] c = "9" -> 9 [] c = "a" -> 10 [] c = "b" -> 11
    [] c = "c" -> 12 [] c = "d" -> 13 [] c = "e" -> 14 [] c = "f" -> 15

\* base::HexStringToBytes: does the string decode (even length, hex digits only)
HexStringOk(s) ==
  /\ Len(s) % 2 = 0
  /\ \A i \in 1..Len(s) : s[i] \in HexDigits

\* base::HexStringToBytes: the decoded bytes of a string that decodes
HexStringToBytes(s) ==
  [i \in 1..(Len(s) \div 2) |-> 16 * HexVal(s[2 * i - 1]) + HexVal(s[2 * i])]

\* FixedKeySource::CreateFromHexStrings: null when a hex string is malformed;
\* an empty pssh or iv is not decoded
FixedKeySource(key_id, key, pssh, iv) ==
  IF /\ HexStringOk(key_id)
     /\ HexStringOk(key)
     /\ HexStringOk(pssh)
     /\ HexStringOk(iv)
  THEN [kind |-> "fixed",
        key_id |-> HexStringToBytes(key_id), key |-> HexStringToBytes(key),
        pssh |-> HexStringToBytes(pssh), iv |-> HexStringToBytes(iv)]
  ELSE NULL

\* new WidevineKeySource(url, include_common_pssh): no signer, nothing fetched
WidevineKeySource(url, common_pssh) ==
  [kind |-> "widevine", server_url |-> url, include_common_pssh |-> common_pssh,
   signer |-> NULL, fetched |-> <<>>]

\* new PlayReadyKeySource(url) / PlayReadyKeySource(url, cert, key, password)
PlayReadyKeySource(url, cert) ==
  [kind |-> "playready", server_url |-> url, client_cert |-> cert,
   ca_file |-> "", fetched |-> <<>>]

\* PlayReadyKeySource::CreateFromKeyAndKeyId
PlayReadyKeySourceFromKey(key_id, key) ==
  [kind |-> "playready_key", key_id |-> key_id, key |-> key]

(***************************************************************************)
(* CreateSigner                                                            *)
(***************************************************************************)
AesCall(f, ok) ==
  <<"AesRequestSigner::CreateSigner", f.signer, f.aes_signing_key, f.aes_signing_iv, ok>>

ReadCall(f, ok) == <<"File::ReadFileToString", f.rsa_signing_key_path, ok>>

RsaCall(f, ok) == <<"RsaRequestSigner::CreateSigner", f.signer, f.rsa_signing_key_path, ok>>

AesSigner(f) ==
  [kind |-> "aes", name |-> f.signer, key |-> f.aes_signing_key, iv |-> f.aes_signing_iv]

RsaSigner(f) ==
  [kind |-> "rsa", name |-> f.signer, private_key_file |-> f.rsa_signing_key_path]

\* CreateSigner with the return after a failed AES construction left out: the
\* RSA branch is tried next
CreateSigner_FallsThrough(f) ==
  LET rsa == { Run(NULL, <<ReadCall(f, FALSE)>>, <<"Failed to read from rsa_signing_key_path">>),
               Run(RsaSigner(f), <<ReadCall(f, TRUE), RsaCall(f, TRUE)>>, <<>>),
               Run(NULL, <<ReadCall(f, TRUE), RsaCall(f, FALSE)>>,
                   <<"Cannot create a RSA signer object">>) }
      aesFailed == Run(NULL, <<AesCall(f, FALSE)>>, <<"Cannot create an AES signer object">>)
  IN  IF f.aes_signing_key # "" THEN
        { Run(AesSigner(f), <<AesCall(f, TRUE)>>, <<>>) }
          \cup (IF f.rsa_signing_key_path # ""
                THEN { Run(r.ret, aesFailed.calls \o r.calls, aesFailed.log \o r.log) : r \in rsa }
                ELSE { aesFailed })
      ELSE IF f.rsa_signing_key_path # "" THEN rsa
      ELSE { Run(NULL, <<>>, <<>>) }

\* the runs of CreateSigner() under flags f, one per outcome of the external calls
CreateSigner(f) ==
  IF f.aes_signing_key # "" THEN
    { Run(AesSigner(f), <<AesCall(f, TRUE)>>, <<>>),
      Run(NULL, <<AesCall(f, FALSE)>>, <<"Cannot create an AES signer object">>) }
  ELSE IF f.rsa_signing_key_path # "" THEN
    { Run(NULL, <<ReadCall(f, FALSE)>>, <<"Failed to read from rsa_signing_key_path">>),
      Run(RsaSigner(f), <<ReadCall(f, TRUE), RsaCall(f, TRUE)>>, <<>>),
      Run(NULL, <<ReadCall(f, TRUE), RsaCall(f, FALSE)>>,
          <<"Cannot create a RSA signer object">>) }
  ELSE
    { Run(NULL, <<>>, <<>>) }

(***************************************************************************)
(* CreateEncryptionKeySource                                               *)
(***************************************************************************)
DecodeCall(f, ok) == <<"base::HexStringToBytes", f.content_id, ok>>

FetchCall(f, ok) ==
  <<"WidevineKeySource::FetchKeys", HexStringToBytes(f.content_id), f.policy, ok>>

\* the signer step shared by both Widevine branches: no call when --signer is
\* empty, otherwise the runs of CreateSigner
SignerStep(f) ==
  IF f.signer # "" THEN CreateSigner(f) ELSE { Run(NULL, <<>>, <<>>) }

\* the Widevine encryption branch treating a null signer without a logged
\* error as "no signer wanted" and carrying on
WidevineEncryptionKeySource_OptionalSigner(f) ==
  LET source == WidevineKeySource(f.key_server_url, f.include_common_pssh)
      AfterSigner(s) ==
        IF f.signer # "" /\ s.ret = NULL /\ s.log # <<>> THEN { Run(NULL, s.calls, s.log) }
        ELSE
          LET signed == [source EXCEPT !.signer = s.ret]
          IN  IF ~HexStringOk(f.content_id) THEN
                { Run(NULL, Append(s.calls, DecodeCall(f, FALSE)),
                      Append(s.log, "Invalid content_id hex string specified.")) }
              ELSE
                LET c == Append(s.calls, DecodeCall(f, TRUE))
                    fetched == <<HexStringToBytes(f.content_id), f.policy>>
                IN  { Run([signed EXCEPT !.fetched = fetched],
                          Append(c, FetchCall(f, TRUE)), s.log),
                      Run(NULL, Append(c, FetchCall(f, FALSE)),
                          Append(s.log, "Widevine encryption key source failed to fetch keys")) }
  IN  UNION { AfterSigner(s) : s \in SignerStep(f) }

\* the Widevine encryption branch with the return after a failed content-id
\* decode left out: keys are fetched with the (empty) decoded bytes
WidevineEncryptionKeySource_FetchesAnyway(f) ==
  LET source == WidevineKeySource(f.key_server_url, f.include_common_pssh)
      AfterSigner(s) ==
        IF f.signer # "" /\ s.ret = NULL THEN { Run(NULL, s.calls, s.log) }
        ELSE
          LET signed == [source EXCEPT !.signer = s.ret]
              ok == HexStringOk(f.content_id)
              bytes == IF ok THEN HexStringToBytes(f.content_id) ELSE <<>>
              c == Append(s.calls, DecodeCall(f, ok))
              l == IF ok THEN s.log
                         ELSE Append(s.log, "Invalid content_id hex string specified.")
              Fetch(res) == <<"WidevineKeySource::FetchKeys", bytes, f.policy, res>>
          IN  { Run([signed EXCEPT !.fetched = <<bytes, f.policy>>],
                    Append(c, Fetch(TRUE)), l),
                Run(NULL, Append(c, Fetch(FALSE)),
                    Append(l, "Widevine encryption key source failed to fetch keys")) }
  IN  UNION { AfterSigner(s) : s \in SignerStep(f) }

\* the FLAGS_enable_widevine_encryption branch
WidevineEncryptionKeySource(f) ==
  LET source == WidevineKeySource(f.key_server_url, f.include_common_pssh)
      AfterSigner(s) ==
        IF f.signer # "" /\ s.ret = NULL THEN { Run(NULL, s.calls, s.log) }
        ELSE
          LET signed == [source EXCEPT !.signer = s.ret]
          IN  IF ~HexStringOk(f.content_id) THEN
                { Run(NULL, Append(s.calls, DecodeCall(f, FALSE)),
                      Append(s.log, "Invalid content_id hex string specified.")) }
              ELSE
                LET c == Append(s.calls, DecodeCall(f, TRUE))
                    fetched == <<HexStringToBytes(f.content_id), f.policy>>
                IN  { Run([signed EXCEPT !.fetched = fetched],
                          Append(c, FetchCall(f, TRUE)), s.log),
                      Run(NULL, Append(c, FetchCall(f, FALSE)),
                          Append(s.log, "Widevine encryption key source failed to fetch keys")) }
  IN  UNION { AfterSigner(s) : s \in SignerStep(f) }

FixedCall(key_id, key, pssh, iv) ==
  <<"FixedKeySource::CreateFromHexStrings", key_id, key, pssh, iv>>

\* the FLAGS_enable_fixed_key_encryption branch
FixedKeyEncryptionKeySource(f) ==
  { Run(FixedKeySource(f.key_id, f.key, f.pssh, f.iv),
        <<FixedCall(f.key_id, f.key, f.pssh, f.iv)>>, <<>>) }

PlayReadyFromKeyCall(f, ok) ==
  <<"PlayReadyKeySource::CreateFromKeyAndKeyId", f.playready_key_id, f.playready_key, ok>>

PlayReadyNewCall(f, cert) == <<"PlayReadyKeySource::PlayReadyKeySource", f.playready_server_url, cert>>

PlayReadyCaCall(f) == <<"PlayReadyKeySource::SetCaFile", f.ca_file>>

PlayReadyFetchCall(f, ok) ==
  <<"PlayReadyKeySource::FetchKeysWithProgramIdentifier", f.program_identifier, ok>>

\* the PlayReady branch asking only for a server URL before building the client
PlayReadyEncryptionKeySource_UrlSuffices(f) ==
  IF f.playready_key_id # "" /\ f.playready_key # "" THEN
    { Run(PlayReadyKeySourceFromKey(f.playready_key_id, f.playready_key),
          <<PlayReadyFromKeyCall(f, TRUE)>>, <<>>),
      Run(NULL, <<PlayReadyFromKeyCall(f, FALSE)>>, <<>>) }
  ELSE IF f.playready_server_url # "" THEN
    LET cert == IF /\ f.client_cert_file # ""
                   /\ f.client_cert_private_key_file # ""
                   /\ f.client_cert_private_key_password # ""
                THEN <<f.client_cert_file, f.client_cert_private_key_file,
                       f.client_cert_private_key_password>>
                ELSE <<>>
        made == PlayReadyKeySource(f.playready_server_url, cert)
        c1 == <<PlayReadyNewCall(f, cert)>>
        withCa == IF f.ca_file # "" THEN [made EXCEPT !.ca_file = f.ca_file] ELSE made
        c2 == IF f.ca_file # "" THEN Append(c1, PlayReadyCaCall(f)) ELSE c1
    IN  { Run([withCa EXCEPT !.fetched = IF ok THEN <<f.program_identifier>> ELSE <<>>],
              Append(c2, PlayReadyFetchCall(f, ok)), <<>>) : ok \in BOOLEAN }
  ELSE
    { Run(NULL, <<>>, <<"Error creating PlayReady key source.">>) }

\* the FLAGS_enable_playready_encryption branch
PlayReadyEncryptionKeySource(f) ==
  IF f.playready_key_id # "" /\ f.playready_key # "" THEN
    { Run(PlayReadyKeySourceFromKey(f.playready_key_id, f.playready_key),
          <<PlayReadyFromKeyCall(f, TRUE)>>, <<>>),
      Run(NULL, <<PlayReadyFromKeyCall(f, FALSE)>>, <<>>) }
  ELSE IF f.playready_server_url # "" /\ f.program_identifier # "" THEN
    LET cert == IF /\ f.client_cert_file # ""
                   /\ f.client_cert_private_key_file # ""
                   /\ f.client_cert_private_key_password # ""
                THEN <<f.client_cert_file, f.client_cert_private_key_file,
                       f.client_cert_private_key_password>>
                ELSE <<>>
        made == PlayReadyKeySource(f.playready_server_url, cert)
        c1 == <<PlayReadyNewCall(f, cert)>>
        withCa == IF f.ca_file # "" THEN [made EXCEPT !.ca_file = f.ca_file] ELSE made
        c2 == IF f.ca_file # "" THEN Append(c1, PlayReadyCaCall(f)) ELSE c1
    IN  { Run([withCa EXCEPT !.fetched = IF ok THEN <<f.program_identifier>> ELSE <<>>],
              Append(c2, PlayReadyFetchCall(f, ok)), <<>>) : ok \in BOOLEAN }
  ELSE
    { Run(NULL, <<>>, <<"Error creating PlayReady key source.">>) }

\* CreateEncryptionKeySource testing the fixed-key flag before the Widevine flag
CreateEncryptionKeySource_FixedKeyFirst(f) ==
  IF f.enable_fixed_key_encryption THEN FixedKeyEncryptionKeySource(f)
  ELSE IF f.enable_widevine_encryption THEN WidevineEncryptionKeySource(f)
  ELSE IF f.enable_playready_encryption THEN PlayReadyEncryptionKeySource(f)
  ELSE { Run(NULL, <<>>, <<>>) }

\* CreateEncryptionKeySource with a plain else as its last branch
CreateEncryptionKeySource_PlayReadyByDefault(f) ==
  IF f.enable_widevine_encryption THEN WidevineEncryptionKeySource(f)
  ELSE IF f.enable_fixed_key_encryption THEN FixedKeyEncryptionKeySource(f)
  ELSE PlayReadyEncryptionKeySource(f)

\* the runs of CreateEncryptionKeySource() under flags f
CreateEncryptionKeySource(f) ==
  IF f.enable_widevine_encryption THEN WidevineEncryptionKeySource(f)
  ELSE IF f.enable_fixed_key_encryption THEN FixedKeyEncryptionKeySource(f)
  ELSE IF f.enable_playready_encryption THEN PlayReadyEncryptionKeySource(f)
  ELSE { Run(NULL, <<>>, <<>>) }

(***************************************************************************)
(* CreateDecryptionKeySource                                               *)
(***************************************************************************)
\* the Widevine decryption branch decoding the content id as the encryption
\* branch does
WidevineDecryptionKeySource_DecodesContentId(f) ==
  LET source == WidevineKeySource(f.key_server_url, f.include_common_pssh)
  IN  { IF f.signer # "" /\ s.ret = NULL THEN Run(NULL, s.calls, s.log)
        ELSE IF ~HexStringOk(f.content_id)
        THEN Run(NULL, Append(s.calls, DecodeCall(f, FALSE)),
                 Append(s.log, "Invalid content_id hex string specified."))
        ELSE Run([source EXCEPT !.signer = s.ret], Append(s.calls, DecodeCall(f, TRUE)), s.log)
        : s \in SignerStep(f) }

\* the FLAGS_enable_widevine_decryption branch
WidevineDecryptionKeySource(f) ==
  LET source == WidevineKeySource(f.key_server_url, f.include_common_pssh)
  IN  { IF f.signer # "" /\ s.ret = NULL THEN Run(NULL, s.calls, s.log)
        ELSE Run([source EXCEPT !.signer = s.ret], s.calls, s.log)
        : s \in SignerStep(f) }

kNoPssh == <<>>

kNoIv == <<>>

\* the fixed-key decryption branch passing --pssh and --iv on, as encryption does
FixedKeyDecryptionKeySource_PassesFlags(f) ==
  { Run(FixedKeySource(f.key_id, f.key, f.pssh, f.iv),
        <<FixedCall(f.key_id, f.key, f.pssh, f.iv)>>, <<>>) }

\* the FLAGS_enable_fixed_key_decryption branch
FixedKeyDecryptionKeySource(f) ==
  { Run(FixedKeySource(f.key_id, f.key, kNoPssh, kNoIv),
        <<FixedCall(f.key_id, f.key, kNoPssh, kNoIv)>>, <<>>) }

\* the runs of CreateDecryptionKeySource() under flags f
CreateDecryptionKeySource(f) ==
  IF f.enable_widevine_decryption THEN WidevineDecryptionKeySource(f)
  ELSE IF f.enable_fixed_key_decryption THEN FixedKeyDecryptionKeySource(f)
  ELSE { Run(NULL, <<>>, <<>>) }

(***************************************************************************)
(* Configurations                                                          *)
(***************************************************************************)
\* every flag set to a usable value, no backend enabled
FullFlags ==
  [enable_widevine_encryption |-> FALSE, enable_fixed_key_encryption |-> FALSE,
   enable_playready_encryption |-> FALSE, enable_widevine_decryption |-> FALSE,
   enable_fixed_key_decryption |-> FALSE,
   key_server_url |-> "https://license", include_common_pssh |-> FALSE,
   signer |-> "provider", aes_signing_key |-> "aeskey", aes_signing_iv |-> "aesiv",
   rsa_signing_key_path |-> "rsa.pem",
   content_id |-> <<"1", "f">>, policy |-> "policy",
   key_id |-> <<"1", "f">>, key |-> <<"f", "1">>, pssh |-> <<"1", "1">>, iv |-> <<"f", "f">>,
   playready_key_id |-> "kid", playready_key |-> "key",
   playready_server_url |-> "https://playready", program_identifier |-> "program",
   client_cert_file |-> "cert", client_cert_private_key_file |-> "certkey",
   client_cert_private_key_password |-> "password", ca_file |-> "ca"]

\* every string flag left at its default, the empty string
EmptyFlags ==
  [enable_widevine_encryption |-> FALSE, enable_fixed_key_encryption |-> FALSE,
   enable_playready_encryption |-> FALSE, enable_widevine_decryption |-> FALSE,
   enable_fixed_key_decryption |-> FALSE,
   key_server_url |-> "", include_common_pssh |-> FALSE,
   signer |-> "", aes_signing_key |-> "", aes_signing_iv |-> "",
   rsa_signing_key_path |-> "",
   content_id |-> <<>>, policy |-> "",
   key_id |-> <<>>, key |-> <<>>, pssh |-> <<>>, iv |-> <<>>,
   playready_key_id |-> "", playready_key |-> "",
   playready_server_url |-> "", program_identifier |-> "",
   client_cert_file |-> "", client_cert_private_key_file |-> "",
   client_cert_private_key_password |-> "", ca_file |-> ""]

Bases == {FullFlags, EmptyFlags}

\* the flags the Widevine branches and CreateSigner read, varied over a base
WidevineVariants(b) ==
  { [b EXCEPT !.signer = sg, !.aes_signing_key = ak, !.rsa_signing_key_path = rp,
              !.content_id = cid, !.policy = pol]
    : sg \in {"", "provider"}, ak \in {"", "aeskey"}, rp \in {"", "rsa.pem"},
      cid \in StringsUpTo(MaxContentIdLen), pol \in {"", "policy"} }

\* the flags the fixed-key branches read, varied over a base
FixedKeyVariants(b) ==
  { [b EXCEPT !.key_id = kid, !.key = k, !.pssh = p, !.iv = v]
    : kid \in HexSamples, k \in HexSamples, p \in HexSamples, v \in HexSamples }

\* the --client_cert_* flags: none, all three, only the certificate file
CertSamples == { <<"", "", "">>, <<"cert", "certkey", "password">>, <<"cert", "", "">> }

\* the flags the PlayReady branch reads, varied over a base
PlayReadyVariants(b) ==
  { [b EXCEPT !.playready_key_id = kid, !.playready_key = k,
              !.playready_server_url = url, !.program_identifier = prog,
              !.client_cert_file = cert[1], !.client_cert_private_key_file = cert[2],
              !.client_cert_private_key_password = cert[3], !.ca_file = ca]
    : kid \in {"", "kid"}, k \in {"", "key"}, url \in {"", "https://playready"},
      prog \in {"", "program"}, cert \in CertSamples, ca \in {"", "ca"} }

\* a configuration with its five enable flags set
WithEnables(c, we, fe, pe, wd, fd) ==
  [c EXCEPT !.enable_widevine_encryption = we, !.enable_fixed_key_encryption = fe,
            !.enable_playready_encryption = pe, !.enable_widevine_decryption = wd,
            !.enable_fixed_key_decryption = fd]

\* the configurations enumerated: every combination of the enable flags over
\* every variant of every base
IsConfig(c) ==
  \E b \in Bases, we \in BOOLEAN, fe \in BOOLEAN, pe \in BOOLEAN,
     wd \in BOOLEAN, fd \in BOOLEAN :
    \/ \E v \in WidevineVariants(b) : c = WithEnables(v, we, fe, pe, wd, fd)
    \/ \E v \in FixedKeyVariants(b) : c = WithEnables(v, we, fe, pe, wd, fd)
    \/ \E v \in PlayReadyVariants(b) : c = WithEnables(v, we, fe, pe, wd, fd)

(***************************************************************************)
(* The state machine: the flags are parsed once, then the functions are    *)
(* called; each call is one step and overwrites the record of the last one.*)
(***************************************************************************)
Init ==
  /\ IsConfig(flags)
  /\ pc = "start"
  /\ ret = NULL
  /\ calls = <<>>
  /\ log = <<>>

Call(name, runs) ==
  \E r \in runs :
    /\ pc' = name
    /\ ret' = r.ret
    /\ calls' = r.calls
    /\ log' = r.log
    /\ UNCHANGED flags

CallCreateSigner == Call("CreateSigner", CreateSigner(flags))

CallCreateEncryptionKeySource ==
  Call("CreateEncryptionKeySource", CreateEncryptionKeySource(flags))

CallCreateDecryptionKeySource ==
  Call("CreateDecryptionKeySource", CreateDecryptionKeySource(flags))

Next ==
  \/ CallCreateSigner
  \/ CallCreateEncryptionKeySource
  \/ CallCreateDecryptionKeySource

Spec == Init /\ [][Next]_vars

(***************************************************************************)
(* Vocabulary of the properties                                            *)
(***************************************************************************)
LastRun == Run(ret, calls, log)

InEnc == pc = "CreateEncryptionKeySource"

InDec == pc = "CreateDecryptionKeySource"

InSigner == pc = "CreateSigner"

\* positions of the calls of an external function in the last call's trace
CallsOf(name) == {i \in 1..Len(calls) : calls[i][1] = name}

Count(name) == Cardinality(CallsOf(name))

Logged(msg) == \E i \in 1..Len(log) : log[i] = msg

SignerCalls ==
  CallsOf("AesRequestSigner::CreateSigner") \cup CallsOf("File::ReadFileToString")
    \cup CallsOf("RsaRequestSigner::CreateSigner")

FetchCalls ==
  CallsOf("WidevineKeySource::FetchKeys")
    \cup CallsOf("PlayReadyKeySource::FetchKeysWithProgramIdentifier")

\* the external calls that report success or failure, as their last component
Fallible ==
  {"AesRequestSigner::CreateSigner", "File::ReadFileToString",
   "RsaRequestSigner::CreateSigner", "base::HexStringToBytes",
   "WidevineKeySource::FetchKeys", "PlayReadyKeySource::CreateFromKeyAndKeyId",
   "PlayReadyKeySource::FetchKeysWithProgramIdentifier"}

FailedAt(i) == calls[i][1] \in Fallible /\ calls[i][Len(calls[i])] = FALSE

\* neither --aes_signing_key nor --rsa_signing_key_path is given
NoSigningKey(f) == f.aes_signing_key = "" /\ f.rsa_signing_key_path = ""

\* the signer step of a Widevine branch ended the call: --signer is given and
\* CreateSigner returned no signer
SignerStepEnded == flags.signer # "" /\ Run(NULL, calls, log) \in CreateSigner(flags)

EncEnables(f) ==
  {n \in {"widevine", "fixed", "playready"} :
     \/ n = "widevine" /\ f.enable_widevine_encryption
     \/ n = "fixed" /\ f.enable_fixed_key_encryption
     \/ n = "playready" /\ f.enable_playready_encryption}

\* flags f with every encryption enable flag below the highest set one cleared
HighestEncryptionOnly(f) ==
  IF f.enable_widevine_encryption
  THEN [f EXCEPT !.enable_fixed_key_encryption = FALSE, !.enable_playready_encryption = FALSE]
  ELSE IF f.enable_fixed_key_encryption
  THEN [f EXCEPT !.enable_playready_encryption = FALSE]
  ELSE f

\* flags f with the fixed-key decryption flag cleared when Widevine decryption is set
HighestDecryptionOnly(f) ==
  IF f.enable_widevine_decryption THEN [f EXCEPT !.enable_fixed_key_decryption = FALSE] ELSE f

PlayReadySelected(f) ==
  /\ ~f.enable_widevine_encryption
  /\ ~f.enable_fixed_key_encryption
  /\ f.enable_playready_encryption

PlayReadyKeyPair(f) == f.playready_key_id # "" /\ f.playready_key # ""

PlayReadyServer(f) == f.playready_server_url # "" /\ f.program_identifier # ""

(***************************************************************************)
(* Properties                                                              *)
(***************************************************************************)

\* C1: with two or more encryption enable flags set, CreateEncryptionKeySource
\* has exactly the runs (result, external calls, logged errors) it has with only
\* the highest-priority flag set (Widevine > fixed key > PlayReady), and the
\* call just made is one of them; likewise CreateDecryptionKeySource with both
\* decryption flags set and only the Widevine decryption flag.
C1_FirstEnabledFlagWins ==
  /\ Cardinality(EncEnables(flags)) >= 2 =>
       /\ CreateEncryptionKeySource(flags)
            = CreateEncryptionKeySource(HighestEncryptionOnly(flags))
       /\ InEnc => LastRun \in CreateEncryptionKeySource(HighestEncryptionOnly(flags))
  /\ (flags.enable_widevine_decryption /\ flags.enable_fixed_key_decryption) =>
       /\ CreateDecryptionKeySource(flags)
            = CreateDecryptionKeySource(HighestDecryptionOnly(flags))
       /\ InDec => LastRun \in CreateDecryptionKeySource(HighestDecryptionOnly(flags))

C1_Witness ==
  /\ InEnc
  /\ ~flags.enable_widevine_encryption
  /\ flags.enable_fixed_key_encryption
  /\ flags.enable_playready_encryption
  /\ PlayReadyServer(flags)
  /\ ret.kind = "fixed"

\* C2: when the PlayReady branch is selected with no key-id/key pair and with
\* server URL and program identifier given, a failed
\* FetchKeysWithProgramIdentifier makes CreateEncryptionKeySource return no key
\* source.
C2_PlayReadyFetchFailureReported ==
  ( /\ InEnc
    /\ PlayReadySelected(flags)
    /\ ~PlayReadyKeyPair(flags)
    /\ PlayReadyServer(flags)
    /\ \E i \in CallsOf("PlayReadyKeySource::FetchKeysWithProgramIdentifier") : FailedAt(i) )
  => ret = NULL

\* C3 as stated: with Widevine encryption enabled, --signer given and neither
\* signing key configured, CreateEncryptionKeySource goes on to decode the
\* content id (and fails only if a later step fails).
C3_MissingSignerIsNoError ==
  ( /\ InEnc
    /\ flags.enable_widevine_encryption
    /\ flags.signer # ""
    /\ NoSigningKey(flags) )
  => /\ Count("base::HexStringToBytes") = 1
     /\ ret = NULL => \E i \in 1..Len(calls) : FailedAt(i)

\* C3 amended: CreateSigner with neither signing key configured returns no
\* signer, makes no external call and logs no error; CreateEncryptionKeySource
\* with Widevine enabled and --signer given then returns no key source without
\* decoding the content id or fetching keys and without logging an error.
\* With --signer empty no signer is asked for and the content id is decoded
\* with no signer attached.
C3_MissingSignerEndsCall ==
  /\ (InSigner /\ NoSigningKey(flags)) => LastRun = Run(NULL, <<>>, <<>>)
  /\ (InEnc /\ flags.enable_widevine_encryption /\ flags.signer # "" /\ NoSigningKey(flags))
       => LastRun = Run(NULL, <<>>, <<>>)
  /\ (InEnc /\ flags.enable_widevine_encryption /\ flags.signer = "")
       => /\ SignerCalls = {}
          /\ calls[1] = DecodeCall(flags, HexStringOk(flags.content_id))
          /\ ret # NULL => ret.signer = NULL

C3_Witness ==
  /\ InEnc
  /\ flags.enable_widevine_encryption
  /\ flags.signer # ""
  /\ NoSigningKey(flags)
  /\ HexStringOk(flags.content_id)
  /\ ret = NULL

\* C4: with Widevine encryption enabled and a content id that is not valid
\* hexadecimal, CreateEncryptionKeySource returns no key source and makes no
\* key-fetch call; unless the signer step already ended the call, the failed
\* decode is its last call and the invalid content id is the error logged.
C4_InvalidContentIdNoFetch ==
  ( /\ InEnc
    /\ flags.enable_widevine_encryption
    /\ ~HexStringOk(flags.content_id) )
  => /\ ret = NULL
     /\ FetchCalls = {}
     /\ ~SignerStepEnded =>
          /\ calls # <<>>
          /\ calls[Len(calls)] = DecodeCall(flags, FALSE)
          /\ Logged("Invalid content_id hex string specified.")

C4_Witness ==
  /\ InEnc
  /\ flags.enable_widevine_encryption
  /\ flags.content_id = <<"x", "x">>
  /\ Logged("Invalid content_id hex string specified.")
  /\ ret = NULL

\* C5: in CreateSigner with --aes_signing_key given, the RSA path is never
\* taken: the only external call is the AES signer construction (no file read,
\* no RSA signer), the AES signer is returned when it succeeds and no signer
\* when it fails, also when --rsa_signing_key_path is given.
C5_AesKeyExcludesRsaPath ==
  (InSigner /\ flags.aes_signing_key # "") =>
    /\ Count("File::ReadFileToString") = 0
    /\ Count("RsaRequestSigner::CreateSigner") = 0
    /\ Len(calls) = 1
    /\ \/ calls[1] = AesCall(flags, TRUE) /\ ret = AesSigner(flags)
       \/ calls[1] = AesCall(flags, FALSE) /\ ret = NULL

C5_Witness ==
  /\ InSigner
  /\ flags.aes_signing_key # ""
  /\ flags.rsa_signing_key_path # ""
  /\ ret = NULL

\* C6: with PlayReady the selected backend, CreateEncryptionKeySource logs the
\* PlayReady configuration error exactly when neither (key id and key both given)
\* nor (server URL and program identifier both given); then it returns no key
\* source and makes no external call.  With key id and key both given the only
\* call is CreateFromKeyAndKeyId: no client object is built and nothing fetched.
C6_IncompletePlayReadyConfig ==
  (InEnc /\ PlayReadySelected(flags)) =>
    /\ Logged("Error creating PlayReady key source.")
         <=> (~PlayReadyKeyPair(flags) /\ ~PlayReadyServer(flags))
    /\ (~PlayReadyKeyPair(flags) /\ ~PlayReadyServer(flags)) =>
         ret = NULL /\ calls = <<>>
    /\ PlayReadyKeyPair(flags) =>
         /\ Len(calls) = 1
         /\ calls[1][1] = "PlayReadyKeySource::CreateFromKeyAndKeyId"
         /\ FetchCalls = {}
         /\ ret # NULL => ret = PlayReadyKeySourceFromKey(flags.playready_key_id,
                                                          flags.playready_key)

C6_Witness ==
  /\ InEnc
  /\ PlayReadySelected(flags)
  /\ flags.playready_server_url # ""
  /\ flags.program_identifier = ""
  /\ ~PlayReadyKeyPair(flags)
  /\ ret = NULL

C8_NothingEnabledNothingDone ==
  ( /\ InEnc \/ InDec
    /\ EncEnables(flags) = {}
    /\ ~flags.enable_widevine_decryption
    /\ ~flags.enable_fixed_key_decryption )
  => LastRun = Run(NULL, <<>>, <<>>)

C8_Witness ==
  /\ InEnc
  /\ EncEnables(flags) = {}
  /\ ~flags.enable_widevine_decryption
  /\ ~flags.enable_fixed_key_decryption
  /\ flags.signer # ""
  /\ flags.playready_server_url # ""
  /\ flags.key_id # <<>>
  /\ ret = NULL

\* C9: with fixed-key decryption the selected backend, CreateDecryptionKeySource
\* builds the source from --key_id and --key with empty pssh and iv: the call is
\* the same run for every value of --pssh and --iv.
C9_DecryptionIgnoresPsshIv ==
  (InDec /\ ~flags.enable_widevine_decryption /\ flags.enable_fixed_key_decryption) =>
    /\ calls = <<FixedCall(flags.key_id, flags.key, <<>>, <<>>)>>
    /\ ret # NULL => ret.pssh = <<>> /\ ret.iv = <<>>
    /\ \A p \in HexSamples, v \in HexSamples :
         CreateDecryptionKeySource([flags EXCEPT !.pssh = p, !.iv = v]) = {LastRun}

C9_Witness ==
  /\ InDec
  /\ ~flags.enable_widevine_decryption
  /\ flags.enable_fixed_key_decryption
  /\ flags.pssh = <<"1", "f">>
  /\ flags.iv = <<"x", "x">>
  /\ ret.kind = "fixed"

\* C10: in every call of CreateEncryptionKeySource there is at most one key
\* fetch and at most one file read, signer calls come before the content-id
\* decode and the decode before the fetch, and a failed step is the last call
\* made and leaves the call returning no key source.
C10_FirstFailureEndsCall ==
  InEnc =>
    /\ Cardinality(FetchCalls) <= 1
    /\ Count("File::ReadFileToString") <= 1
    /\ \A i \in SignerCalls, j \in CallsOf("base::HexStringToBytes") : i < j
    /\ \A i \in CallsOf("base::HexStringToBytes"), j \in FetchCalls : i < j
    /\ \A i \in 1..Len(calls) : FailedAt(i) => i = Len(calls) /\ ret = NULL

====
